---- MODULE Spec2Model ----
(***************************************************************************)
(* TreatOrHell (api/index.py): the questionnaire record store, its lenient *)
(* decoder, the behavior summary and the persona prompts.                  *)
(*                                                                         *)
(* Text is modelled character by character: a Python str is a sequence of  *)
(* one-character strings (a non-ASCII character is the token "U+xxxx"),    *)
(* the file student_responses.txt is a sequence of bytes (an ASCII byte is *)
(* its character, any other byte is the token "xHH").  The markers the     *)
(* encoder and the decoder depend on ('='*60, "Response submitted at: ",   *)
(* "Qn: ", "Answer: ", "\n") are kept literally.  The free texts of the    *)
(* catalog and of the personas are shortened to a few words each; they     *)
(* keep what the decoder can observe of them: no newline, no colon in a    *)
(* question text, no leading or trailing blank, the multi-byte characters  *)
(* of the options and options of different lengths.                        *)
(***************************************************************************)
EXTENDS Integers, Sequences, FiniteSets, TLC

VARIABLES
  file,       \* student_responses.txt: [exists, bytes]
  writers,    \* per worker thread: its position in submit_answers' with-block
  req,        \* the request the last step handled
  resp,       \* the HTTP response, if the last step was a submit-questions request
  loaded,     \* what get_latest_student_responses returned, if it was a chat request
  sent,       \* the messages it passed to client.chat.completions.create
  lastWrite   \* history: the submission whose record was written last

vars == <<file, writers, req, resp, loaded, sent, lastWrite>>

----------------------------------------------------------------------------
(* Bounds of the model *)

\* the number of sample answer sets that valid submissions are drawn from
NumSamples == 4
\* datetime.now() falls on one of the seconds 0..MaxClock of one minute
MaxClock == 1

----------------------------------------------------------------------------
(* Python str / bytes primitives *)

Min(S) == CHOOSE m \in S : \A n \in S : m <= n

\* str.strip() with no argument strips these
WS == {" ", "\n", "\t", "\r"}

\* s[i:i+len(p)] == p
MatchAt(s, p, i) ==
  /\ i >= 1
  /\ i + Len(p) - 1 <= Len(s)
  /\ SubSeq(s, i, i + Len(p) - 1) = p

\* p in s
Contains(s, p) ==
  LET n == Len(p)
  IN  \E i \in 1..(Len(s) - n + 1) : SubSeq(s, i, i + n - 1) = p

\* s.startswith(p)
StartsWith(s, p) == MatchAt(s, p, 1)

\* s.strip()
Strip(s) ==
  IF \A i \in 1..Len(s) : s[i] \in WS THEN <<>>
  ELSE LET lead  == CHOOSE k \in 0..(Len(s) - 1) :
                      s[k + 1] \notin WS /\ \A j \in 1..k : s[j] \in WS
           trail == CHOOSE k \in 0..(Len(s) - 1) :
                      s[Len(s) - k] \notin WS
                        /\ \A j \in (Len(s) - k + 1)..Len(s) : s[j] \in WS
       IN  SubSeq(s, lead + 1, Len(s) - trail)

\* s.split(p): the pieces between the leftmost non-overlapping matches of p
RECURSIVE SplitFrom(_, _, _, _)
SplitFrom(s, p, M, from) ==
  LET later == {m \in M : m >= from}
  IN  IF later = {} THEN <<SubSeq(s, from, Len(s))>>
      ELSE LET m == Min(later)
           IN  <<SubSeq(s, from, m - 1)>> \o SplitFrom(s, p, M, m + Len(p))

Split(s, p) ==
  LET n == Len(p)
  IN  SplitFrom(s, p, {i \in 1..(Len(s) - n + 1) : SubSeq(s, i, i + n - 1) = p}, 1)

\* sep.join(parts)
RECURSIVE Join(_, _)
Join(parts, sep) ==
  IF parts = <<>> THEN <<>>
  ELSE IF Len(parts) = 1 THEN parts[1]
  ELSE parts[1] \o sep \o Join(Tail(parts), sep)

\* s.replace(p, "")
Replace(s, p) == Join(Split(s, p), <<>>)

\* c * n
Repeat(c, n) == [i \in 1..n |-> c]

----------------------------------------------------------------------------
(* UTF-8, the encoding of open(..., encoding="utf-8") and read_text *)

LeadBytes == {"xC3", "xC5", "xE2", "xF0"}
ContBytes == {"x80", "x93", "x96", "x9C", "x9F", "xA1", "xA4", "xA6", "xA8", "x8C"}

NonAsciiBytes == LeadBytes \cup ContBytes

FrameLen(b) ==
  CASE b \in {"xC3", "xC5"} -> 2
    [] b = "xE2" -> 3
    [] b = "xF0" -> 4

NonAsciiChars ==
  {"U+00E1", "U+0161", "U+2013", "U+2026", "U+2728", "U+1F31F", "U+1F916"}

Utf8Bytes(c) ==
  CASE c = "U+00E1" -> <<"xC3","xA1">>
    [] c = "U+0161" -> <<"xC5","xA1">>
    [] c = "U+2013" -> <<"xE2","x80","x93">>
    [] c = "U+2026" -> <<"xE2","x80","xA6">>
    [] c = "U+2728" -> <<"xE2","x9C","xA8">>
    [] c = "U+1F31F" -> <<"xF0","x9F","x8C","x9F">>
    [] c = "U+1F916" -> <<"xF0","x9F","xA4","x96">>
    [] OTHER -> <<c>>

\* the first position of s that holds an element of S
FirstIn(s, S) ==
  CHOOSE i \in 1..Len(s) : s[i] \in S /\ \A j \in 1..(i - 1) : s[j] \notin S

\* str -> bytes
RECURSIVE Utf8Encode(_)
Utf8Encode(s) ==
  IF \A i \in 1..Len(s) : s[i] \notin NonAsciiChars THEN s
  ELSE LET i == FirstIn(s, NonAsciiChars)
       IN  SubSeq(s, 1, i - 1) \o Utf8Bytes(s[i])
                 \o Utf8Encode(SubSeq(s, i + 1, Len(s)))

\* bytes -> str; ok = FALSE stands for UnicodeDecodeError
RECURSIVE Utf8Decode(_)
Utf8Decode(b) ==
  IF \A i \in 1..Len(b) : b[i] \notin NonAsciiBytes THEN [ok |-> TRUE, text |-> b]
  ELSE  LET i == FirstIn(b, NonAsciiBytes)
            n == IF b[i] \in LeadBytes THEN FrameLen(b[i]) ELSE 0
            wellFormed ==
              /\ n > 0
              /\ i + n - 1 <= Len(b)
              /\ \A k \in (i + 1)..(i + n - 1) : b[k] \in ContBytes
            frame == SubSeq(b, i, i + n - 1)
            known == {c \in NonAsciiChars : Utf8Bytes(c) = frame}
            char  == IF known = {} THEN "U+FFFF" ELSE CHOOSE c \in known : TRUE
            rest  == Utf8Decode(SubSeq(b, i + n, Len(b)))
        IN  IF ~wellFormed \/ ~rest.ok THEN [ok |-> FALSE, text |-> <<>>]
            ELSE [ok |-> TRUE,
                  text |-> SubSeq(b, 1, i - 1) \o <<char>> \o rest.text]

----------------------------------------------------------------------------
(* The question catalog (index.py, QUESTIONS), texts shortened *)

QUESTIONS ==
  <<
   [id |->
    <<"Q","1">>,
    question |->  \* first assignment?
    <<"f","i","r","s","t"," ","a","s","s","i","g","n","m","e","n","t","?">>,
    options |-> <<
    \* early 🌟
    <<"e","a","r","l","y"," ","U+1F31F">>,
    \* on time
    <<"o","n"," ","t","i","m","e">>,
    \* last minute ("adrenaline")
    <<"l","a","s","t"," ","m","i","n","u","t","e"," ","(","\"","a","d","r","e","n","a","l","i",
      "n","e","\"",")">>,
    \* late
    <<"l","a","t","e">>,
    \* it… spiritually
    <<"i","t","U+2026"," ","s","p","i","r","i","t","u","a","l","l","y">>>>],
   [id |->
    <<"Q","2">>,
    question |->  \* didn't understand?
    <<"d","i","d","n","'","t"," ","u","n","d","e","r","s","t","a","n","d","?">>,
    options |-> <<
    \* ChatGPT 🤖✨
    <<"C","h","a","t","G","P","T"," ","U+1F916","U+2728">>,
    \* office hours
    <<"o","f","f","i","c","e"," ","h","o","u","r","s">>,
    \* Discord ("help pls")
    <<"D","i","s","c","o","r","d"," ","(","\"","h","e","l","p"," ","p","l","s","\"",")">>,
    \* Googled
    <<"G","o","o","g","l","e","d">>,
    \* prayed
    <<"p","r","a","y","e","d">>>>],
   [id |->
    <<"Q","3">>,
    question |->  \* engage in class?
    <<"e","n","g","a","g","e"," ","i","n"," ","c","l","a","s","s","?">>,
    options |-> <<
    \* camera on
    <<"c","a","m","e","r","a"," ","o","n">>,
    \* share my screen
    <<"s","h","a","r","e"," ","m","y"," ","s","c","r","e","e","n">>,
    \* Mikuláš approves
    <<"M","i","k","u","l","U+00E1","U+0161"," ","a","p","p","r","o","v","e","s">>,
    \* chat
    <<"c","h","a","t">>,
    \* I observe… quietly…
    <<"I"," ","o","b","s","e","r","v","e","U+2026"," ","q","u","i","e","t","l","y","U+2026">>>>],
   [id |->
    <<"Q","4">>,
    question |->  \* How many hours?
    <<"H","o","w"," ","m","a","n","y"," ","h","o","u","r","s","?">>,
    options |-> <<
    \* More than 10
    <<"M","o","r","e"," ","t","h","a","n"," ","1","0">>,
    \* 5–10 hours
    <<"5","U+2013","1","0"," ","h","o","u","r","s">>,
    \* 1 hour
    <<"1"," ","h","o","u","r">>,
    \* Not at all
    <<"N","o","t"," ","a","t"," ","a","l","l">>>>]
  >>
\* 'Answer:'
AnswerMarker ==
    <<"A","n","s","w","e","r",":">>

\* 'Answer: '
AnswerPrefix ==
    <<"A","n","s","w","e","r",":"," ">>

\* 'Response submitted at: '
HeaderPrefix ==
    <<"R","e","s","p","o","n","s","e"," ","s","u","b","m","i","t","t","e","d"," ","a","t",":",
      " ">>

\* "\n\nThe student's recent behavior report:"
SummaryHeader ==
    <<"\n","\n","T","h","e"," ","s","t","u","d","e","n","t","'","s"," ","r","e","c","e","n","t",
      " ","b","e","h","a","v","i","o","r"," ","r","e","p","o","r","t",":">>

\* '\nUse this info to personalize your response.'
SummaryFooter ==
    <<"\n","U","s","e"," ","t","h","i","s"," ","i","n","f","o"," ","t","o"," ","p","e","r","s",
      "o","n","a","l","i","z","e"," ","y","o","u","r"," ","r","e","s","p","o","n","s","e",".">>

\* a string that is no option of any question
Bogus ==
    <<"o","n"," ","T","i","m","e">>

\* an id that is no catalog id
ExtraId ==
    <<"Q","9">>


N == Len(QUESTIONS)

\* QUESTIONS.keys(), in insertion order
QuestionIds == [i \in 1..N |-> QUESTIONS[i].id]

\* set(QUESTIONS.keys())
required_questions == {QUESTIONS[i].id : i \in 1..N}

\* QUESTIONS[qid]
Question(qid) == QUESTIONS[CHOOSE i \in 1..N : QUESTIONS[i].id = qid]

\* answer in QUESTIONS[qid]["options"]
IsOption(qid, answer) ==
  \E k \in 1..Len(Question(qid).options) : Question(qid).options[k] = answer

----------------------------------------------------------------------------
(* Python dict, insertion-ordered: a sequence of <<key, value>> pairs *)

Keys(d) == {d[i][1] : i \in 1..Len(d)}

HasKey(d, k) == \E i \in 1..Len(d) : d[i][1] = k

Get(d, k) == d[CHOOSE i \in 1..Len(d) : d[i][1] = k][2]

\* d[k] = v
Put(d, k, v) ==
  IF HasKey(d, k)
  THEN [i \in 1..Len(d) |-> IF d[i][1] = k THEN <<k, v>> ELSE d[i]]
  ELSE Append(d, <<k, v>>)

----------------------------------------------------------------------------
(* The record text written by submit_answers *)

Digit(n) == <<"0", "1", "2", "3", "4", "5", "6", "7", "8", "9">>[n + 1]

\* datetime.now().strftime("%Y-%m-%d %H:%M:%S") at second t of one minute
strftime(t) ==
  <<"2", "0", "2", "5", "-", "1", "2", "-", "0", "5", " ",
    "1", "8", ":", "3", "0", ":">> \o <<Digit(t \div 10), Digit(t % 10)>>

\* '=' * 60
Separator == Repeat("=", 60)

\* the two f.write calls of one pass of the loop over response.answers.items()
Block(item) ==
  item[1] \o <<":", " ">> \o Question(item[1]).question \o <<"\n">>
    \o AnswerPrefix \o item[2] \o <<"\n", "\n">>

\* variant: the blocks are written in catalog order, not in the order of answers
Blocks_CatalogOrder(answers) ==
  LET present == SelectSeq(QuestionIds, LAMBDA q : HasKey(answers, q))
      RECURSIVE Cat(_)
      Cat(ids) == IF ids = <<>> THEN <<>>
                  ELSE Block(<<Head(ids), Get(answers, Head(ids))>>) \o Cat(Tail(ids))
  IN  Cat(present)

RECURSIVE Blocks(_)
Blocks(answers) ==
  IF answers = <<>> THEN <<>>
  ELSE Block(Head(answers)) \o Blocks(Tail(answers))

\* everything written inside the with-block, as text
RecordText(answers, timestamp) ==
  Separator \o <<"\n">>
    \o HeaderPrefix \o timestamp \o <<"\n">>
    \o Separator \o <<"\n", "\n">>
    \o Blocks(answers)

\* the bytes that reach the file when the with-block closes it
RecordBytes(answers, timestamp) == Utf8Encode(RecordText(answers, timestamp))

----------------------------------------------------------------------------
(* get_latest_student_responses *)

None == [isNone |-> TRUE, items |-> <<>>]

Some(d) == [isNone |-> FALSE, items |-> d]

\* variant: the whole id line is taken as the id, the split at ":" is left out
QuestionIdOf_WholeLine(line) == Strip(line)

\* question_id = line.split(":")[0].strip()
QuestionIdOf(line) == Strip(Split(line, <<":">>)[1])

\* variant: the answer keeps the blank after "Answer:", strip() is left out
AnswerOf_NoStrip(line) == Replace(line, AnswerMarker)

\* answer = lines[j].replace("Answer:", "").strip()
AnswerOf(line) == Strip(Replace(line, AnswerMarker))

\* the loop "for i, line in enumerate(lines)" from line i on (i is 1-based)
RECURSIVE ParseLines(_, _, _)
ParseLines(lines, i, latest_answers) ==
  IF i > Len(lines) THEN latest_answers
  ELSE
    LET line == lines[i]
        J == {j \in (i + 1)..Len(lines) : StartsWith(lines[j], AnswerMarker)}
    IN  IF StartsWith(line, <<"Q">>) /\ Contains(line, <<":">>)
             /\ i < Len(lines) /\ J # {}
        THEN ParseLines(lines, i + 1,
                        Put(latest_answers, QuestionIdOf(line), AnswerOf(lines[Min(J)])))
        ELSE ParseLines(lines, i + 1, latest_answers)

\* the body of "if 'Answer:' in response"
ParseResponse(response) == ParseLines(Split(Strip(response), <<"\n">>), 1, <<>>)

\* the loop "for response in reversed(responses)" from section k downwards
RECURSIVE ScanSections(_, _)
ScanSections(responses, k) ==
  IF k = 0 THEN None
  ELSE LET latest_answers == IF Contains(responses[k], AnswerMarker)
                              THEN ParseResponse(responses[k]) ELSE <<>>
       IN  IF latest_answers # <<>> THEN Some(latest_answers)
           ELSE ScanSections(responses, k - 1)

get_latest_student_responses(f) ==
  IF ~f.exists THEN None
  ELSE LET content == Utf8Decode(f.bytes)
       IN  IF ~content.ok THEN None   \* except Exception
           ELSE LET responses == Split(content.text, Separator)
                IN  ScanSections(responses, Len(responses))

----------------------------------------------------------------------------
(* build_behavior_summary *)

\* variant: one bullet per recovered answer, in the order of recovery
Bullets_RecoveryOrder(student_responses, i) ==
  [k \in 1..Len(student_responses) |-> <<"-", " ">> \o student_responses[k][2]]

\* the loop "for qid in QUESTIONS" from catalog position i on
RECURSIVE Bullets(_, _)
Bullets(student_responses, i) ==
  IF i > N THEN <<>>
  ELSE IF HasKey(student_responses, QuestionIds[i])
       THEN <<<<"-", " ">> \o Get(student_responses, QuestionIds[i])>>
              \o Bullets(student_responses, i + 1)
       ELSE Bullets(student_responses, i + 1)

\* variant: a summary only for a record that holds an answer for every question
build_behavior_summary_CompleteOnly(student_responses) ==
  IF student_responses.isNone \/ Len(student_responses.items) < N THEN <<>>
  ELSE Join(<<SummaryHeader>>
              \o [k \in 1..Len(student_responses.items) |->
                    <<"-", " ">> \o student_responses.items[k][2]]
              \o <<SummaryFooter>>, <<"\n">>)

\* build_behavior_summary, given what its call of
\* get_latest_student_responses returned
build_behavior_summary(student_responses) ==
  IF student_responses.isNone \/ student_responses.items = <<>> THEN <<>>
  ELSE Join(<<SummaryHeader>> \o Bullets(student_responses.items, 1)
              \o <<SummaryFooter>>, <<"\n">>)

\* 'Missing answers for questions: '
MissingPrefix ==
    <<"M","i","s","s","i","n","g"," ","a","n","s","w","e","r","s"," ","f","o","r"," ","q","u",
      "e","s","t","i","o","n","s",":"," ">>

\* ', '
CommaSpace ==
    <<","," ">>

\* 'Failed to save answers: '
FailedPrefix ==
    <<"F","a","i","l","e","d"," ","t","o"," ","s","a","v","e"," ","a","n","s","w","e","r","s",
      ":"," ">>

\* 'Invalid answer for '
InvalidPrefix ==
    <<"I","n","v","a","l","i","d"," ","a","n","s","w","e","r"," ","f","o","r"," ">>

\* '. Please select from the provided options.'
InvalidSuffix ==
    <<"."," ","P","l","e","a","s","e"," ","s","e","l","e","c","t"," ","f","r","o","m"," ","t",
      "h","e"," ","p","r","o","v","i","d","e","d"," ","o","p","t","i","o","n","s",".">>

----------------------------------------------------------------------------
(* The three personas: description, steering clause and example exchange,  *)
(* each shortened to its first words                                       *)

\* 'You are St. Nicholas (Mikuláš).'
NicholasDescription ==
    <<"Y","o","u"," ","a","r","e"," ","S","t","."," ","N","i","c","h","o","l","a","s"," ","(",
      "M","i","k","u","l","U+00E1","U+0161",")",".">>

\* '\n\n        Weave in specific references to their reported behavior.'
NicholasSteering ==
    <<"\n","\n"," "," "," "," "," "," "," "," ","W","e","a","v","e"," ","i","n"," ","s","p","e",
      "c","i","f","i","c"," ","r","e","f","e","r","e","n","c","e","s"," ","t","o"," ","t","h",
      "e","i","r"," ","r","e","p","o","r","t","e","d"," ","b","e","h","a","v","i","o","r",".">>

\* 'I only studied for 2 hours this week'
NicholasExampleIn ==
    <<"I"," ","o","n","l","y"," ","s","t","u","d","i","e","d"," ","f","o","r"," ","2"," ","h",
      "o","u","r","s"," ","t","h","i","s"," ","w","e","e","k">>

\* 'Ho ho ho!'
NicholasExampleOut ==
    <<"H","o"," ","h","o"," ","h","o","!">>

\* 'You are an overly emotional, sparkly Anděl (Angel).'
AngelDescription ==
    <<"Y","o","u"," ","a","r","e"," ","a","n"," ","o","v","e","r","l","y"," ","e","m","o","t",
      "i","o","n","a","l",","," ","s","p","a","r","k","l","y"," ","A","n","d","U+011B","l"," ",
      "(","A","n","g","e","l",")",".">>

\* '\n\n        Be dramatically emotional about their specific choices!'
AngelSteering ==
    <<"\n","\n"," "," "," "," "," "," "," "," ","B","e"," ","d","r","a","m","a","t","i","c","a",
      "l","l","y"," ","e","m","o","t","i","o","n","a","l"," ","a","b","o","u","t"," ","t","h",
      "e","i","r"," ","s","p","e","c","i","f","i","c"," ","c","h","o","i","c","e","s","!">>

\* 'I completely forgot to do my homework'
AngelExampleIn ==
    <<"I"," ","c","o","m","p","l","e","t","e","l","y"," ","f","o","r","g","o","t"," ","t","o",
      " ","d","o"," ","m","y"," ","h","o","m","e","w","o","r","k">>

\* '*tears of joy*'
AngelExampleOut ==
    <<"*","t","e","a","r","s"," ","o","f"," ","j","o","y","*">>

\* 'You are a Czech-style Čert (Devil).'
DevilDescription ==
    <<"Y","o","u"," ","a","r","e"," ","a"," ","C","z","e","c","h","-","s","t","y","l","e"," ",
      "U+010C","e","r","t"," ","(","D","e","v","i","l",")",".">>

\* '\n\n        Roast them using their actual choices.'
DevilSteering ==
    <<"\n","\n"," "," "," "," "," "," "," "," ","R","o","a","s","t"," ","t","h","e","m"," ","u",
      "s","i","n","g"," ","t","h","e","i","r"," ","a","c","t","u","a","l"," ","c","h","o","i",
      "c","e","s",".">>

\* 'I procrastinated all week'
DevilExampleIn ==
    <<"I"," ","p","r","o","c","r","a","s","t","i","n","a","t","e","d"," ","a","l","l"," ","w",
      "e","e","k">>

\* "Oh, look who's here!"
DevilExampleOut ==
    <<"O","h",","," ","l","o","o","k"," ","w","h","o","'","s"," ","h","e","r","e","!">>

Personas ==
  [nicholas |-> [description |-> NicholasDescription, steering |-> NicholasSteering,
                 example_in |-> NicholasExampleIn, example_out |-> NicholasExampleOut],
   angel    |-> [description |-> AngelDescription, steering |-> AngelSteering,
                 example_in |-> AngelExampleIn, example_out |-> AngelExampleOut],
   devil    |-> [description |-> DevilDescription, steering |-> DevilSteering,
                 example_in |-> DevilExampleIn, example_out |-> DevilExampleOut]]

\* variant: the steering clause is appended whether or not there is a summary
SystemPrompt_AlwaysSteer(p, behavior_summary) ==
  Personas[p].description \o behavior_summary \o Personas[p].steering

\* system_prompt, after "if behavior_summary: system_prompt += ..."
SystemPrompt(p, behavior_summary) ==
  IF behavior_summary # <<>>
  THEN Personas[p].description \o behavior_summary \o Personas[p].steering
  ELSE Personas[p].description

\* the messages argument of client.chat.completions.create
ChatMessages(p, behavior_summary, message) ==
  <<[role |-> "system",    content |-> SystemPrompt(p, behavior_summary)],
    [role |-> "user",      content |-> Personas[p].example_in],
    [role |-> "assistant", content |-> Personas[p].example_out],
    [role |-> "user",      content |-> message]>>

----------------------------------------------------------------------------
(* Requests *)

\* the option numbers of sample k: option k for the first question, one option
\* further for each following question, wrapping round at the last option
Sample(k) == [i \in 1..N |-> ((k + i - 2) % Len(QUESTIONS[i].options)) + 1]

\* the orders in which a complete answers mapping may carry its ids
KeyOrders == {<<1, 2, 3, 4>>, <<4, 3, 2, 1>>}

\* the answers mapping with the catalog positions of order and the choices c
Mapping(order, c) ==
  [k \in 1..Len(order) |->
     <<QuestionIds[order[k]], QUESTIONS[order[k]].options[c[order[k]]]>>]

\* answers mappings that pass validation
ValidSubmissions == {Mapping(o, Sample(k)) : o \in KeyOrders, k \in 1..NumSamples}

\* answers mappings whose key set is not the catalog's
WrongKeySubmissions ==
  {Mapping(<<1>>, Sample(2)),
   Mapping(<<4, 3, 2>>, Sample(2)),
   Append(Mapping(<<2, 1>>, Sample(2)), <<ExtraId, Bogus>>),
   Append(Mapping(<<1, 2, 3, 4>>, Sample(2)), <<ExtraId, Bogus>>)}

\* values that are no option: wrong case, a trailing blank
BadValues == {Bogus, QUESTIONS[1].options[2] \o <<" ">>}

\* complete answers mappings with one value that is not an option
BadValueSubmissions ==
  {[m EXCEPT ![k] = <<m[k][1], v>>] :
     m \in {Mapping(<<1, 2, 3, 4>>, Sample(2))}, k \in {1, N}, v \in BadValues}

Submissions == ValidSubmissions \cup WrongKeySubmissions \cup BadValueSubmissions

\* datetime.now(), formatted
Timestamps == {strftime(t) : t \in 0..MaxClock}

\* req.message
ChatInputs == {<<"h", "i">>, <<>>}

\* the worker threads that run submit_answers at the same time
Writers == 1..2

----------------------------------------------------------------------------
(* State *)

NoFile == [exists |-> FALSE, bytes |-> <<>>]

NoRequest == [op |-> "none", answers |-> <<>>, message |-> <<>>]

NoResponse == [status |-> 0, error |-> <<>>, timestamp |-> <<>>, answers |-> <<>>]

NoWrite ==
  [set |-> FALSE, answers |-> <<>>, timestamp |-> <<>>, complete |-> FALSE,
   replaced |-> FALSE]

Idle == [pc |-> "idle", answers |-> <<>>, timestamp |-> <<>>]

Init ==
  /\ file = NoFile
  /\ writers = [w \in Writers |-> Idle]
  /\ req = NoRequest
  /\ resp = NoResponse
  /\ loaded = None
  /\ sent = <<>>
  /\ lastWrite = NoWrite

----------------------------------------------------------------------------
(* submit_answers *)

\* variant: the ids on one side only, required or provided
MissingIds_EitherSide(provided_questions) ==
  (required_questions \ provided_questions) \cup (provided_questions \ required_questions)

\* required_questions - provided_questions
MissingIds(provided_questions) == required_questions \ provided_questions

\* the orders in which ', '.join(missing) may list the set missing
Listings(S) ==
  {l \in [1..Cardinality(S) -> S] : \A i, j \in 1..Cardinality(S) : i # j => l[i] # l[j]}

\* variant: the answers are not compared with the options
InvalidAt_Unchecked(answers) == {}

\* the positions of response.answers.items() whose answer is not an option
InvalidAt(answers) ==
  {k \in 1..Len(answers) : ~IsOption(answers[k][1], answers[k][2])}

\* variant: the file is opened for writing without being emptied
OpenTruncate_Keep(f) == [exists |-> TRUE, bytes |-> f.bytes]

\* open(file_path, "w"): the file exists and is empty
OpenTruncate(f) == [exists |-> TRUE, bytes |-> <<>>]

\* the buffered text reaches the file in one write at the position of this
\* open file, which is 0; bytes of the file beyond the written ones stay
WriteAtStart(f, data) ==
  [exists |-> TRUE,
   bytes |-> data \o SubSeq(f.bytes, Len(data) + 1, Len(f.bytes))]

Rejected(error) ==
  [status |-> 400, error |-> error, timestamp |-> <<>>, answers |-> <<>>]

Success(answers, timestamp) ==
  [status |-> 200, error |-> <<>>, timestamp |-> timestamp, answers |-> answers]

\* the response of the except branch; the text of the exception is left out
Failed ==
  [status |-> 500, error |-> FailedPrefix, timestamp |-> <<>>, answers |-> <<>>]

\* the history after one more complete write; replaced: the file held the
\* complete record of another submission or of another second before it
Written(answers, timestamp) ==
  [set |-> TRUE, answers |-> answers, timestamp |-> timestamp, complete |-> TRUE,
   replaced |-> /\ lastWrite.set
                /\ lastWrite.complete
                /\ <<lastWrite.answers, lastWrite.timestamp>> # <<answers, timestamp>>]

\* the handler as one step: no other request is in progress
submit_answers ==
  \E answers \in Submissions, timestamp \in Timestamps :
    /\ \A w \in Writers : writers[w].pc = "idle"
    /\ req' = [op |-> "submit", answers |-> answers, message |-> <<>>]
    /\ loaded' = None
    /\ sent' = <<>>
    /\ IF required_questions # Keys(answers)
       THEN /\ \E listing \in Listings(MissingIds(Keys(answers))) :
                 resp' = Rejected(MissingPrefix \o Join(listing, CommaSpace))
            /\ UNCHANGED <<file, lastWrite>>
       ELSE IF InvalidAt(answers) # {}
       THEN /\ resp' = Rejected(InvalidPrefix \o answers[Min(InvalidAt(answers))][1]
                                  \o InvalidSuffix)
            /\ UNCHANGED <<file, lastWrite>>
       ELSE \/ /\ file' = WriteAtStart(OpenTruncate(file), RecordBytes(answers, timestamp))
               /\ resp' = Success(answers, timestamp)
               /\ lastWrite' = Written(answers, timestamp)
            \/ \* open() raises, say for want of permission: nothing is written
               /\ resp' = Failed
               /\ UNCHANGED <<file, lastWrite>>
    /\ UNCHANGED writers

----------------------------------------------------------------------------
(* chat_nicholas, chat_angel, chat_devil *)

Chat(p) ==
  LET student_responses == get_latest_student_responses(file)
  IN  \E message \in ChatInputs :
        /\ req' = [op |-> p, answers |-> <<>>, message |-> message]
        /\ resp' = NoResponse
        /\ loaded' = student_responses
        /\ sent' = ChatMessages(p, build_behavior_summary(student_responses), message)
        /\ UNCHANGED <<file, writers, lastWrite>>

chat_nicholas == Chat("nicholas")

chat_angel == Chat("angel")

chat_devil == Chat("devil")

Next == submit_answers \/ chat_nicholas \/ chat_angel \/ chat_devil

Spec == Init /\ [][Next]_vars

----------------------------------------------------------------------------
(* Submissions in parallel: FastAPI runs a "def" handler in a worker thread, *)
(* so two submit_answers calls can be inside their with-blocks together.     *)
(* Each worker handles one valid submission: it opens the file, which        *)
(* truncates it, and on leaving the with-block writes its buffered record.   *)

submit_open(w) ==
  \E answers \in ValidSubmissions, timestamp \in Timestamps :
    /\ writers[w].pc = "idle"
    /\ required_questions = Keys(answers)
    /\ InvalidAt(answers) = {}
    /\ file' = OpenTruncate(file)
    /\ writers' = [writers EXCEPT ![w] =
                     [pc |-> "open", answers |-> answers, timestamp |-> timestamp]]
    /\ req' = [op |-> "submit", answers |-> answers, message |-> <<>>]
    /\ resp' = NoResponse
    /\ UNCHANGED <<loaded, sent, lastWrite>>

submit_close(w) ==
  /\ writers[w].pc = "open"
  /\ file' = WriteAtStart(file, RecordBytes(writers[w].answers, writers[w].timestamp))
  /\ writers' = [writers EXCEPT ![w].pc = "done"]
  /\ req' = [op |-> "submit", answers |-> writers[w].answers, message |-> <<>>]
  /\ resp' = Success(writers[w].answers, writers[w].timestamp)
  /\ lastWrite' = Written(writers[w].answers, writers[w].timestamp)
  /\ UNCHANGED <<loaded, sent>>

OpenStep == \E w \in Writers : submit_open(w)

CloseStep == \E w \in Writers : submit_close(w)

NextConcurrent == OpenStep \/ CloseStep

SpecConcurrent == Init /\ [][NextConcurrent]_vars

----------------------------------------------------------------------------
(* A record cut short: the write of a valid submission stopped after k bytes *)
(* (disk full, process killed), and chat requests then read the file.        *)

\* the submissions whose write is cut short: the samples, ids in catalog order
CutSubmissions == {Mapping(<<1, 2, 3, 4>>, Sample(k)) : k \in 1..NumSamples}

InitTruncated ==
  \E answers \in CutSubmissions :
    \E k \in 0..(Len(RecordBytes(answers, strftime(0))) - 1) :
      /\ file = [exists |-> TRUE,
                 bytes |-> SubSeq(RecordBytes(answers, strftime(0)), 1, k)]
      /\ writers = [w \in Writers |-> Idle]
      /\ req = NoRequest
      /\ resp = NoResponse
      /\ loaded = None
      /\ sent = <<>>
      /\ lastWrite = [set |-> TRUE, answers |-> answers, timestamp |-> strftime(0),
                      complete |-> FALSE, replaced |-> FALSE]

NextTruncated == chat_nicholas \/ chat_angel \/ chat_devil

SpecTruncated == InitTruncated /\ [][NextTruncated]_vars

----------------------------------------------------------------------------
(* Properties *)

PersonaNames == {"nicholas", "angel", "devil"}

\* the last step was a chat request
IsChat == req.op \in PersonaNames

\* the last step was a submit-questions request answered with "success"
IsSaved == req.op = "submit" /\ resp.status = 200

\* two dicts are equal: the same keys, and the same value for each key
DictEq(d, e) ==
  /\ Keys(d) = Keys(e)
  /\ Len(d) = Len(e)
  /\ \A k \in Keys(d) : Get(d, k) = Get(e, k)

\* a complete answers mapping with valid options only
ValidAnswers(answers) ==
  /\ Keys(answers) = required_questions
  /\ \A k \in 1..Len(answers) :
       \E o \in 1..Len(Question(answers[k][1]).options) :
         Question(answers[k][1]).options[o] = answers[k][2]

\* the ids that a "Missing answers" error text lists
ListedIds(error) ==
  LET listing == Split(SubSeq(error, Len(MissingPrefix) + 1, Len(error)), CommaSpace)
  IN  {listing[i] : i \in 1..Len(listing)}

\* the lines of text that are bullets
BulletLines(text) ==
  SelectSeq(Split(text, <<"\n">>), LAMBDA l : StartsWith(l, <<"-", " ">>))

\* one bullet per catalog question that d answers, in catalog order
BulletsFor(d) ==
  LET present == SelectSeq(QuestionIds, LAMBDA q : HasKey(d, q))
  IN  [i \in 1..Len(present) |-> <<"-", " ">> \o Get(d, present[i])]

\* the text of the file
FileText == Utf8Decode(file.bytes).text

\* the lines of the stored record after its header
BodyLines ==
  LET lines == Split(FileText, <<"\n">>)
  IN  SubSeq(lines, 5, Len(lines))

\* the file's body is a run of blocks for the pairs of d, in the order of d:
\* an id line, the answer line, a blank line
BlocksFollow(d) ==
  /\ Len(BodyLines) = 3 * Len(d) + 1
  /\ \A k \in 1..Len(d) :
       /\ StartsWith(BodyLines[3 * k - 2], d[k][1] \o <<":", " ">>)
       /\ BodyLines[3 * k - 1] = AnswerPrefix \o d[k][2]
       /\ BodyLines[3 * k] = <<>>

\* the number of places where p occurs in s
Occurrences(s, p) ==
  Cardinality({i \in 1..(Len(s) - Len(p) + 1) : SubSeq(s, i, i + Len(p) - 1) = p})

\* s is a prefix of t
IsPrefix(s, t) == Len(s) <= Len(t) /\ SubSeq(t, 1, Len(s)) = s

\* C1: a submission that lacks at least one catalog id, with or without extra
\* ids, is answered with 400 and an error that lists exactly the catalog ids
\* the submission lacks: every missing id, and no id that was submitted.
C1_MissingIdsListed ==
  (req.op = "submit" /\ required_questions \ Keys(req.answers) # {})
    => /\ resp.status = 400
       /\ StartsWith(resp.error, MissingPrefix)
       /\ \A q \in required_questions \ Keys(req.answers) : q \in ListedIds(resp.error)
       /\ \A q \in ListedIds(resp.error) :
            q \in required_questions /\ q \notin Keys(req.answers)

\* a submission with an extra id that lacks two catalog ids was rejected
C1_Witness ==
  /\ req.op = "submit"
  /\ ExtraId \in Keys(req.answers)
  /\ Cardinality(required_questions \ Keys(req.answers)) = 2
  /\ resp.status = 400
  /\ Cardinality(ListedIds(resp.error)) = 2

\* C2: a submission that fails validation (an id missing, an extra id, a value
\* that is no option) is answered with 400 and leaves the file as it was; only
\* a submission with exactly the catalog ids and valid options changes the file.
C2_ValidationKeepsStore ==
  [][/\ (req'.op = "submit" /\ ~ValidAnswers(req'.answers))
          => (resp'.status = 400 /\ file' = file)
     /\ (file' # file) => (req'.op = "submit" /\ ValidAnswers(req'.answers))]_vars

\* a submission with a value that is no option was rejected while the file
\* held the record of an earlier submission, and the record is still there
C2_Witness ==
  /\ req.op = "submit"
  /\ Keys(req.answers) = required_questions
  /\ ~ValidAnswers(req.answers)
  /\ resp.status = 400
  /\ lastWrite.set
  /\ file.bytes = RecordBytes(lastWrite.answers, lastWrite.timestamp)

\* C3: decoding the text that a successful submission wrote returns a mapping
\* equal to the submitted one: the same ids, and for each id the same answer.
C3_RoundTrip ==
  IsSaved
    => /\ ~get_latest_student_responses(file).isNone
       /\ DictEq(get_latest_student_responses(file).items, req.answers)

\* a submission that carries its ids in reverse order and an answer with
\* multi-byte characters was saved at second 1
C3_Witness ==
  /\ IsSaved
  /\ req.answers[1][1] = QuestionIds[N]
  /\ resp.timestamp = strftime(1)
  /\ \E k \in 1..N : \E i \in 1..Len(req.answers[k][2]) :
       req.answers[k][2][i] \in NonAsciiChars

\* C4: after successful submissions that do not overlap, the file holds one
\* record, that of the latest of them and nothing else, and decoding it
\* returns the answers of the latest.
C4_OnlyLatestRecord ==
  (lastWrite.set /\ lastWrite.complete /\ \A w \in Writers : writers[w].pc = "idle")
    => /\ file.exists
       /\ file.bytes = RecordBytes(lastWrite.answers, lastWrite.timestamp)
       /\ Occurrences(file.bytes, HeaderPrefix) = 1
       /\ DictEq(get_latest_student_responses(file).items, lastWrite.answers)

\* a chat request read the file after a submission had replaced the record of
\* another one
C4_Witness ==
  /\ lastWrite.replaced
  /\ IsChat
  /\ DictEq(loaded.items, lastWrite.answers)

\* C5: from a record cut short at any byte, get_latest_student_responses
\* returns None or a non-empty mapping whose ids are ids of the record; an
\* exception inside it is turned into None.
C5_CutRecordDecodes ==
  (IsChat /\ lastWrite.set /\ ~lastWrite.complete
     /\ IsPrefix(file.bytes, RecordBytes(lastWrite.answers, lastWrite.timestamp)))
    => \/ loaded.isNone
       \/ /\ loaded.items # <<>>
          /\ Keys(loaded.items) \subseteq Keys(lastWrite.answers)

\* a record cut in the middle of its second answer line was decoded to two
\* answers, the second one cut
C5_Witness ==
  /\ IsChat
  /\ ~lastWrite.complete
  /\ ~loaded.isNone
  /\ Len(loaded.items) = 2
  /\ loaded.items[2][2] # Get(lastWrite.answers, loaded.items[2][1])

\* C6: a chat request after a successful submission, whatever the order of
\* the ids in it, builds a system prompt with one bullet per catalog question,
\* the submitted answer to it, in catalog order.
C6_BulletsInCatalogOrder ==
  (IsChat /\ lastWrite.set /\ lastWrite.complete)
    => BulletLines(sent[1].content)
         = [i \in 1..N |-> <<"-", " ">> \o Get(lastWrite.answers, QuestionIds[i])]

\* a chat request after a submission with the ids in reverse order
C6_Witness ==
  /\ IsChat
  /\ lastWrite.set
  /\ lastWrite.answers[1][1] = QuestionIds[N]
  /\ Len(BulletLines(sent[1].content)) = N

\* C7: a chat request sends four messages, system, user, assistant, user: the
\* persona's example exchange second and third, the request's message last;
\* the system message is the description alone when there is no summary, and
\* the description, the summary and the steering clause when there is one.
C7_FourMessages ==
  IsChat
    => /\ Len(sent) = 4
       /\ [i \in 1..4 |-> sent[i].role] = <<"system", "user", "assistant", "user">>
       /\ sent[2].content = Personas[req.op].example_in
       /\ sent[3].content = Personas[req.op].example_out
       /\ sent[4].content = req.message
       /\ IF loaded.isNone
          THEN sent[1].content = Personas[req.op].description
          ELSE /\ IsPrefix(Personas[req.op].description \o SummaryHeader, sent[1].content)
               /\ sent[1].content
                    = Personas[req.op].description
                        \o Join(<<SummaryHeader>> \o BulletsFor(loaded.items)
                                  \o <<SummaryFooter>>, <<"\n">>)
                        \o Personas[req.op].steering

\* a chat request to the devil with a stored record, and one to the angel
\* without
C7_Witness ==
  \/ /\ req.op = "devil"
     /\ ~loaded.isNone
     /\ req.message = <<"h", "i">>
     /\ Len(sent) = 4
  \/ /\ req.op = "angel"
     /\ loaded.isNone
     /\ sent[1].content = AngelDescription

\* C8: when the writes of concurrent valid submissions have all finished,
\* get_latest_student_responses returns the complete answers of one of them.
C8_OneCompleteRecord ==
  (\A w \in Writers : writers[w].pc = "done")
    => /\ ~get_latest_student_responses(file).isNone
       /\ \E w \in Writers :
            DictEq(get_latest_student_responses(file).items, writers[w].answers)

\* C9 as stated: the record of a successful submission lists its blocks in
\* catalog order, also when the submission carried its ids in another order.
C9_BlocksInCatalogOrder ==
  IsSaved
    => BlocksFollow([i \in 1..N |-> <<QuestionIds[i], Get(req.answers, QuestionIds[i])>>])

\* C9, amended: the record of a successful submission lists one block per
\* submitted id, in the order in which the submitted mapping carries the ids.
C9_BlocksInSubmittedOrder == IsSaved => BlocksFollow(req.answers)

\* a submission with the ids in reverse order was saved
C9_Witness ==
  /\ IsSaved
  /\ req.answers[1][1] = QuestionIds[N]
  /\ file.bytes = RecordBytes(req.answers, resp.timestamp)

\* C10 as stated: a chat request that finds a partial record is served with
\* the persona description alone, no bullets and no steering clause.
C10_PartialRecordGivesGenericPrompt ==
  (IsChat /\ ~lastWrite.complete) => sent[1].content = Personas[req.op].description

\* C10, amended: a chat request that finds a partial record is served, with the
\* description alone when nothing could be recovered from the record, and
\* otherwise with one bullet per recovered catalog id, in catalog order, each
\* a prefix of the submitted answer, and the steering clause at the end.
C10_PartialRecordDegrades ==
  (IsChat /\ ~lastWrite.complete)
    => /\ Len(sent) = 4
       /\ loaded.isNone => sent[1].content = Personas[req.op].description
       /\ ~loaded.isNone =>
            /\ BulletLines(sent[1].content) = BulletsFor(loaded.items)
            /\ Len(BulletLines(sent[1].content)) = Len(loaded.items)
            /\ \A k \in 1..Len(loaded.items) :
                 IsPrefix(loaded.items[k][2],
                          Get(lastWrite.answers, loaded.items[k][1]))
            /\ sent[1].content # Personas[req.op].description
            /\ LET c == sent[1].content
                   e == Personas[req.op].steering
               IN  Len(c) >= Len(e) /\ SubSeq(c, Len(c) - Len(e) + 1, Len(c)) = e

\* a chat request found a record cut after some of its answer lines and sent
\* bullets for these
C10_Witness ==
  /\ IsChat
  /\ ~lastWrite.complete
  /\ ~loaded.isNone
  /\ Len(loaded.items) < N
  /\ Len(BulletLines(sent[1].content)) = Len(loaded.items)

====
